---- MODULE Spec2Model ----
(***************************************************************************)
(* The editor-side client of rift (MorphLanguageClient): the reconnection  *)
(* supervisor (create_client and the state-change observer), the agent     *)
(* registry (agents: Map<number, Agent>) and the agent-progress handler    *)
(* (morph_notify / Agent.handleProgress).                                  *)
(*                                                                         *)
(* The LanguageClient of vscode-languageclient is the environment: a       *)
(* connection has a public state (Stopped, Starting, Running), fires       *)
(* onDidChangeState once per change of the public state, and dispose()     *)
(* stops it asynchronously.  The backend is the environment too: it        *)
(* listens on the port or not, answers requests, sends notifications.      *)
(***************************************************************************)
EXTENDS Integers, FiniteSets, Sequences, TLC

\* ------------------------------------------------------------------ bounds
\* ids a backend process hands out before the model stops issuing requests
MaxId == 2
\* connection objects alive (not yet garbage) at the same time
MaxConns == 2
\* run_agent requests in flight at the same time
MaxPending == 1
\* create_client invocations inside the polling loop at the same time
MaxPollers == 2
\* run_chat calls, each with a callback of its own
MaxChats == 2

\* ------------------------------------------------------------------ domains
Ids == 1..MaxId
ConnIds == 1..MaxConns

Docs == {"a.py", "b.py"}
\* the documents run_agent is invoked on
RunDocs == {"a.py"}
\* the anchor lines (startPosition.line) of agents
Lines == {3, 7}
\* the lines run_agent is invoked on
RunLines == {3}
\* the callbacks handed to run_chat: the n-th call brings callback n
Callbacks == 1..MaxChats
\* the visible text editors and the document each one shows
Editors == {"e1"}
EditorDoc(e) == "a.py"

AgentStatus == {"running", "done", "error", "accepted", "rejected"}
Terminal == {"accepted", "rejected"}

\* values of RunAgentProgress.ranges when present (vscode.Range[])
RangeVals == {<< >>, <<"r1">>}

\* RunAgentProgress: status "none" is an absent status, hasRanges = FALSE an
\* absent ranges field
Params ==
    { p \in [id : Ids, status : AgentStatus \cup {"none"}, hasRanges : BOOLEAN,
             ranges : RangeVals, textDocument : Docs] :
        (~p.hasRanges) => p.ranges = << >> }

VARIABLES
    client,      \* this.client: 0 is null, otherwise a key of conns
    conns,       \* the LanguageClient objects that are not garbage yet
    polling,     \* create_client invocations awaiting tcpPortUsed.check
    waiting,     \* create_client invocations awaiting tcpPortUsed.waitUntilUsed
    backendUp,   \* the backend listens on DEFAULT_PORT
    nextId,      \* the id the backend process hands out next
    agents,      \* this.agents, as the set of its entries
    pending,     \* morph/run_agent requests awaiting their response
    shutdown,    \* dispose() of the MorphLanguageClient has been called
    chatCallback,\* this.morphNotifyChatCallback: 0 is the initial function that
                 \* throws, n the callback of the n-th run_chat
    last         \* what the last handler did: error raised, line logged,
                 \* emitter firings, message sent to the backend, chat
                 \* callback called, lenses returned, value returned

vars == <<client, conns, polling, waiting, backendUp, nextId, agents, pending,
          shutdown, chatCallback, last>>

connVars == <<client, conns, polling, waiting, shutdown, chatCallback>>
agentVars == <<agents, pending, nextId>>

Quiet == [err |-> "none", log |-> "none", statusFires |-> 0, lensFires |-> 0,
          sent |-> "none", called |-> 0, lenses |-> << >>,
          returned |-> "none"]
Raise(e) == [Quiet EXCEPT !.err = e]
Sent(m) == [Quiet EXCEPT !.sent = m]

\* ------------------------------------------------------------------ registry
\* Map.set that keeps the entry the key had
MapSet_keeps(m, k, v) == m \cup {v}

\* Map.prototype.has / get / set on this.agents
MapHas(m, k) == \E e \in m : e.id = k
\* a lookup that returns an entry whatever its key
MapGet_any(m, k) == CHOOSE e \in m : TRUE
MapGet(m, k) == CHOOSE e \in m : e.id = k
MapSet(m, k, v) == {e \in m : e.id # k} \cup {v}

\* new Agent(id, startPosition, textDocument); wired: run_agent subscribed
\* changeLensEmitter.fire to onStatusChange
Agent(id, line, doc, wired) ==
    [id |-> id, status |-> "running", ranges |-> << >>, startPosition |-> line,
     textDocument |-> doc, green |-> [e \in Editors |-> << >>], wired |-> wired]

\* the loop of handleProgress over the visible editors that show the
\* notification's document: the decoration of agent a in each editor
Decorate(a, p) ==
    [e \in Editors |->
       IF EditorDoc(e) # p.textDocument THEN a.green[e]
       ELSE IF p.status \in Terminal THEN << >>
       ELSE IF p.hasRanges THEN p.ranges
       ELSE a.green[e]]

\* handleProgress that sets the decoration to the ranges also on accepted and
\* rejected
handleProgress_decorates(a, p) ==
    LET changed == p.status # "none" /\ a.status # p.status
    IN [agent |-> [a EXCEPT
                     !.status = IF changed THEN p.status ELSE a.status,
                     !.ranges = IF p.hasRanges THEN p.ranges ELSE a.ranges,
                     !.green = [e \in Editors |->
                                  IF EditorDoc(e) = p.textDocument /\ p.hasRanges
                                  THEN p.ranges ELSE a.green[e]]],
        fired |-> IF changed THEN 1 ELSE 0]

\* handleProgress that appends the notification's ranges
handleProgress_appends(a, p) ==
    LET changed == p.status # "none" /\ a.status # p.status
    IN [agent |-> [a EXCEPT
                     !.status = IF changed THEN p.status ELSE a.status,
                     !.ranges = IF p.hasRanges THEN a.ranges \o p.ranges
                                ELSE a.ranges,
                     !.green = Decorate(a, p)],
        fired |-> IF changed THEN 1 ELSE 0]

\* handleProgress that fires for every notification that carries a status
handleProgress_fires(a, p) ==
    LET changed == p.status # "none" /\ a.status # p.status
    IN [agent |-> [a EXCEPT
                     !.status = IF changed THEN p.status ELSE a.status,
                     !.ranges = IF p.hasRanges THEN p.ranges ELSE a.ranges,
                     !.green = Decorate(a, p)],
        fired |-> IF p.status # "none" THEN 1 ELSE 0]

\* Agent.handleProgress: the agent after the notification and the number of
\* times onStatusChangeEmitter fired
handleProgress(a, p) ==
    LET changed == p.status # "none" /\ a.status # p.status
    IN [agent |-> [a EXCEPT
                     !.status = IF changed THEN p.status ELSE a.status,
                     !.ranges = IF p.hasRanges THEN p.ranges ELSE a.ranges,
                     !.green = Decorate(a, p)],
        fired |-> IF changed THEN 1 ELSE 0]

\* ------------------------------------------------------------------ connection
\* chat: the callback registered for morph/chat_progress, 0 when none is;
\* streams: the run_chat requests sent on the connection that the backend
\* still answers with notifications, each named by its callback
NewConn == [state |-> "Starting", stopping |-> FALSE, disposed |-> FALSE,
            handler |-> FALSE, chat |-> 0, streams |-> {}, obs |-> 0]

\* the public state of this.client
ClientStopped == client # 0 /\ conns[client].state = "Stopped"
ClientRunning == client # 0 /\ conns[client].state = "Running"

\* an is_running that only tests that this.client exists
is_running_connected == client # 0

\* MorphLanguageClient.is_running
is_running == ClientRunning

RECURSIVE CallDispose(_, _)
RECURSIVE FireStopped(_, _)
\* LanguageClient.dispose() on connection t: a Running connection starts to
\* stop (public state Stopped, observers notified), a stopped one that is not
\* released yet is released, a Starting one refuses
CallDispose(cs, t) ==
    IF t = 0 \/ t \notin DOMAIN cs THEN cs
    ELSE IF cs[t].state = "Running"
         THEN FireStopped([cs EXCEPT ![t].state = "Stopped", ![t].stopping = TRUE], t)
    ELSE IF cs[t].state = "Stopped" /\ ~cs[t].disposed
         THEN [cs EXCEPT ![t].stopping = TRUE]
    ELSE cs

\* the onDidChangeState observer of connection c on newState === Stopped, up
\* to its first await: this.client?.dispose(), remembered in obs
FireStopped(cs, c) ==
    IF cs[c].obs # 0 THEN cs
    ELSE CallDispose([cs EXCEPT ![c].obs = client], client)

\* an observer that does not await dispose() before it calls create_client
AwaitDisposeSkipped(cs, c) == TRUE

\* the await of this.client?.dispose() in the observer of c has resolved
AwaitDisposeResolved(cs, c) ==
    cs[c].obs \notin DOMAIN cs \/ cs[cs[c].obs].disposed

\* a guard that returns early only while the connection is Starting
create_client_proceeds_unless_starting(cs, cl) ==
    ~(cl # 0 /\ cs[cl].state = "Starting")

\* the guard of create_client: TRUE when it goes on to poll
create_client_proceeds(cs, cl) ==
    ~(cl # 0 /\ cs[cl].state # "Stopped")

\* connection objects nothing refers to any more
Garbage(cs, cl) ==
    {c \in DOMAIN cs : c # cl /\ cs[c].disposed /\ cs[c].obs = 0
                       /\ \A d \in DOMAIN cs : cs[d].obs # c}

Min(S) == CHOOSE x \in S : \A y \in S : x <= y

\* ------------------------------------------------------------------ Init
Init ==
    /\ client = 0
    /\ conns = [c \in {} |-> NewConn]
    /\ polling = 1
    /\ waiting = 0
    /\ backendUp \in BOOLEAN
    /\ nextId = 1
    /\ agents = {}
    /\ pending = {}
    /\ shutdown = FALSE
    /\ chatCallback = 0
    /\ last = Quiet

\* ------------------------------------------------------------------ backend
\* a new backend process listens and numbers its agents from the start; the
\* connections to the process before it have been seen to close or to fail
BackendStart ==
    /\ ~backendUp
    /\ \A c \in DOMAIN conns : conns[c].state = "Stopped"
    /\ backendUp' = TRUE
    /\ nextId' = 1
    /\ last' = Quiet
    /\ UNCHANGED <<connVars, agents, pending>>

\* the backend process ends
BackendStop ==
    /\ backendUp
    /\ backendUp' = FALSE
    /\ last' = Quiet
    /\ UNCHANGED <<connVars, agentVars>>

\* ------------------------------------------------------------------ create_client
\* tcpPortUsed.check resolved true: the rest of create_client up to the await
\* of start(): a new LanguageClient becomes this.client, gets the observer and
\* is started
create_client_connect ==
    /\ polling > 0
    /\ backendUp
    /\ LET kept == DOMAIN conns \ Garbage(conns, 0)
       IN /\ ConnIds \ kept # {}
          /\ LET new == Min(ConnIds \ kept)
             IN /\ conns' = [c \in kept \cup {new} |->
                               IF c = new THEN NewConn ELSE conns[c]]
                /\ client' = new
    /\ polling' = polling - 1
    /\ last' = Quiet
    /\ UNCHANGED <<waiting, backendUp, agentVars, shutdown, chatCallback>>

\* tcpPortUsed.check resolved false: the loop body awaits waitUntilUsed
create_client_port_free ==
    /\ polling > 0
    /\ ~backendUp
    /\ polling' = polling - 1
    /\ waiting' = waiting + 1
    /\ last' = Quiet
    /\ UNCHANGED <<client, conns, backendUp, agentVars, shutdown, chatCallback>>

\* tcpPortUsed.check rejected: nothing catches it, create_client ends
create_client_check_throws ==
    /\ polling > 0
    /\ polling' = polling - 1
    /\ last' = Raise("port check failed")
    /\ UNCHANGED <<client, conns, waiting, backendUp, agentVars, shutdown, chatCallback>>

\* waitUntilUsed resolved: back to the loop condition
create_client_wait_resolved ==
    /\ waiting > 0
    /\ backendUp
    /\ waiting' = waiting - 1
    /\ polling' = polling + 1
    /\ last' = Quiet
    /\ UNCHANGED <<client, conns, backendUp, agentVars, shutdown, chatCallback>>

\* waitUntilUsed rejected (timeout): caught and logged, back to the loop condition
create_client_wait_caught ==
    /\ waiting > 0
    /\ ~backendUp
    /\ waiting' = waiting - 1
    /\ polling' = polling + 1
    /\ last' = Quiet
    /\ UNCHANGED <<client, conns, backendUp, agentVars, shutdown, chatCallback>>

\* a create_client that does not register morph_notify after start()
create_client_started_unregistered(c) ==
    /\ c \in DOMAIN conns
    /\ conns[c].state = "Starting"
    /\ backendUp
    /\ conns' = [conns EXCEPT ![c].state = "Running"]
    /\ last' = Quiet
    /\ UNCHANGED <<client, polling, waiting, backendUp, agentVars, shutdown, chatCallback>>

\* start() resolved: the connection is Running and create_client registers
\* morph_notify for morph/progress on this.client
create_client_started(c) ==
    /\ c \in DOMAIN conns
    /\ conns[c].state = "Starting"
    /\ backendUp
    /\ LET cs == [conns EXCEPT ![c].state = "Running"]
       IN conns' = [cs EXCEPT ![client].handler = TRUE]
    /\ last' = Quiet
    /\ UNCHANGED <<client, polling, waiting, backendUp, agentVars, shutdown, chatCallback>>

\* start() rejected: the connection is Stopped, its observer runs, and the
\* create_client that awaited start() ends with the error
create_client_start_fails(c) ==
    /\ c \in DOMAIN conns
    /\ conns[c].state = "Starting"
    /\ ~backendUp
    /\ conns' = FireStopped([conns EXCEPT ![c].state = "Stopped"], c)
    /\ last' = Raise("start failed")
    /\ UNCHANGED <<client, polling, waiting, backendUp, agentVars, shutdown, chatCallback>>

\* ------------------------------------------------------------------ connection events
\* the socket of a Running connection closes: Stopped, the observer runs
ConnectionDrops(c) ==
    /\ c \in DOMAIN conns
    /\ conns[c].state = "Running"
    /\ conns' = FireStopped([conns EXCEPT ![c].state = "Stopped"], c)
    /\ last' = Quiet
    /\ UNCHANGED <<client, polling, waiting, backendUp, agentVars, shutdown, chatCallback>>

\* a dispose() in progress completes: the connection is released, its handlers
\* are gone and the requests it still owed are rejected
DisposeCompletes(t) ==
    /\ t \in DOMAIN conns
    /\ conns[t].stopping
    /\ conns' = [conns EXCEPT ![t].stopping = FALSE, ![t].disposed = TRUE,
                              ![t].handler = FALSE, ![t].chat = 0,
                              ![t].streams = {}]
    /\ pending' = {r \in pending : r.conn # t}
    /\ last' = IF pending' # pending THEN Raise("request failed") ELSE Quiet
    /\ UNCHANGED <<client, polling, waiting, backendUp, nextId, agents, shutdown, chatCallback>>

\* the observer of c resumes after its await of dispose() and calls
\* create_client, which returns at once or enters the polling loop
ObserverResumes(c) ==
    /\ c \in DOMAIN conns
    /\ conns[c].obs # 0
    /\ AwaitDisposeResolved(conns, c)
    /\ conns' = [conns EXCEPT ![c].obs = 0]
    /\ IF create_client_proceeds(conns', client)
       THEN /\ polling + waiting < MaxPollers
            /\ polling' = polling + 1
       ELSE polling' = polling
    /\ last' = Quiet
    /\ UNCHANGED <<client, waiting, backendUp, agentVars, shutdown, chatCallback>>

\* MorphLanguageClient.dispose
dispose ==
    /\ shutdown' = TRUE
    /\ conns' = CallDispose(conns, client)
    /\ last' = Quiet
    /\ UNCHANGED <<client, polling, waiting, backendUp, agentVars, chatCallback>>

\* ------------------------------------------------------------------ run_agent
\* run_agent up to its await: throws without a client, else sends the request
run_agent(l, d) ==
    /\ IF client = 0
       THEN /\ last' = Raise("not connected")
            /\ pending' = pending
       ELSE /\ Cardinality(pending) < MaxPending
            /\ conns[client].state # "Stopped"
            /\ pending' = pending \cup {[kind |-> "run_agent", conn |-> client,
                                         line |-> l, doc |-> d]}
            /\ last' = Sent("morph/run_agent")
    /\ UNCHANGED <<connVars, backendUp, nextId, agents>>

\* sendRequest rejects at once on a stopped connection
run_agent_rejected(l, d) ==
    /\ client # 0
    /\ conns[client].state = "Stopped"
    /\ last' = Raise("request failed")
    /\ UNCHANGED <<connVars, backendUp, agentVars>>

\* the backend answers { id }: the rest of run_agent
run_agent_returns(r) ==
    /\ r \in pending
    /\ r.kind = "run_agent"
    /\ r.conn \in DOMAIN conns
    /\ conns[r.conn].state = "Running"
    /\ backendUp
    /\ nextId <= MaxId
    /\ agents' = MapSet(agents, nextId, Agent(nextId, r.line, r.doc, TRUE))
    /\ nextId' = nextId + 1
    /\ pending' = pending \ {r}
    /\ last' = [Quiet EXCEPT !.lensFires = 1, !.returned = "starting agent"]
    /\ UNCHANGED <<connVars, backendUp>>

\* ------------------------------------------------------------------ morph_notify
\* subscribers that fire changeLensEmitter for every agent
onStatusChange_all(a, fired) == fired

\* the firings of changeLensEmitter when onStatusChangeEmitter of agent a has
\* fired `fired` times: run_agent subscribes e => this.changeLensEmitter.fire()
\* to the agent, run_agent_sync subscribes nothing
onStatusChange(a, fired) == IF a.wired THEN fired ELSE 0

\* morph_notify that registers an agent for an id it does not know
morph_notify_registers(p) ==
    IF ~is_running
    THEN [agents |-> agents, last |-> Raise("client not running")]
    ELSE IF ~MapHas(agents, p.id)
    THEN [agents |-> MapSet(agents, p.id, Agent(p.id, 3, p.textDocument, FALSE)),
          last |-> Raise("agent not found")]
    ELSE [agents |-> agents, last |-> Quiet]

\* MorphLanguageClient.morph_notify: the registry after the call and what the
\* call did (error raised, emitter firings)
morph_notify(p) ==
    IF ~is_running
    THEN [agents |-> agents, last |-> Raise("client not running")]
    ELSE IF ~MapHas(agents, p.id)
    THEN [agents |-> agents, last |-> Raise("agent not found")]
    ELSE LET a == MapGet(agents, p.id)
             h == handleProgress(a, p)
         IN [agents |-> (agents \ {a}) \cup {h.agent},
             last |-> [Quiet EXCEPT !.statusFires = h.fired,
                             !.lensFires = onStatusChange(a, h.fired)]]

\* some connection can still dispatch a morph/progress notification: its
\* handler is registered and it is not released
Dispatching(c) ==
    /\ c \in DOMAIN conns
    /\ conns[c].handler
    /\ ~conns[c].disposed

\* connection c dispatches a morph/progress notification to its handler
Progress(c, p) ==
    /\ Dispatching(c)
    /\ agents' = morph_notify(p).agents
    /\ last' = morph_notify(p).last
    /\ UNCHANGED <<connVars, backendUp, nextId, pending>>

\* ------------------------------------------------------------------ requests
\* create_client called once more while this.client is not Stopped: the guard
\* of lines 248-251 logs and returns, otherwise the call starts to poll
create_client_called ==
    /\ client # 0
    /\ conns[client].state # "Stopped"
    /\ IF create_client_proceeds(conns, client)
       THEN /\ polling' = polling + 1
            /\ last' = Quiet
       ELSE /\ polling' = polling
            /\ last' = [Quiet EXCEPT !.log = "client already exists"]
    /\ UNCHANGED <<client, conns, waiting, backendUp, agentVars, shutdown,
                   chatCallback>>

\* run_agent_sync up to its await: throws without a client, else sends the
\* request
run_agent_sync(l, d) ==
    /\ IF client = 0
       THEN /\ last' = Raise("Error")
            /\ pending' = pending
       ELSE /\ Cardinality(pending) < MaxPending
            /\ conns[client].state # "Stopped"
            /\ pending' = pending \cup {[kind |-> "run_agent_sync",
                                         conn |-> client, line |-> l, doc |-> d]}
            /\ last' = Sent("morph/run_agent_sync")
    /\ UNCHANGED <<connVars, backendUp, nextId, agents>>

\* sendRequest rejects at once on a stopped connection
run_agent_sync_rejected(l, d) ==
    /\ client # 0
    /\ conns[client].state = "Stopped"
    /\ last' = Raise("request failed")
    /\ UNCHANGED <<connVars, backendUp, agentVars>>

\* a run_agent_sync that subscribes to the agent and fires changeLensEmitter,
\* as run_agent does
run_agent_sync_returns_wired(r) ==
    /\ r \in pending
    /\ r.kind = "run_agent_sync"
    /\ r.conn \in DOMAIN conns
    /\ conns[r.conn].state = "Running"
    /\ backendUp
    /\ nextId <= MaxId
    /\ agents' = MapSet(agents, nextId, Agent(nextId, r.line, r.doc, TRUE))
    /\ nextId' = nextId + 1
    /\ pending' = pending \ {r}
    /\ last' = [Quiet EXCEPT !.lensFires = 1, !.returned = "text"]
    /\ UNCHANGED <<connVars, backendUp>>

\* the backend answers { id, text }: the rest of run_agent_sync, which
\* subscribes nothing to the agent, does not fire changeLensEmitter and
\* returns the text
run_agent_sync_returns(r) ==
    /\ r \in pending
    /\ r.kind = "run_agent_sync"
    /\ r.conn \in DOMAIN conns
    /\ conns[r.conn].state = "Running"
    /\ backendUp
    /\ nextId <= MaxId
    /\ agents' = MapSet(agents, nextId, Agent(nextId, r.line, r.doc, FALSE))
    /\ nextId' = nextId + 1
    /\ pending' = pending \ {r}
    /\ last' = [Quiet EXCEPT !.returned = "text"]
    /\ UNCHANGED <<connVars, backendUp>>

\* LanguageClient.sendRequest and sendNotification as the caller sees them:
\* rejected on a stopped connection, sent otherwise
Send(method) ==
    IF conns[client].state = "Stopped" THEN Raise("request failed")
    ELSE Sent(method)

\* MorphLanguageClient.get_agents; the answer changes nothing
get_agents ==
    /\ last' = IF client = 0 THEN Raise("Error") ELSE Send("morph/listAgents")
    /\ UNCHANGED <<connVars, backendUp, agentVars>>

\* MorphLanguageClient.on_config_change: this.client?.sendRequest
on_config_change ==
    /\ last' = IF client = 0 THEN Quiet
               ELSE Send("workspace/didChangeConfiguration")
    /\ UNCHANGED <<connVars, backendUp, agentVars>>

\* ------------------------------------------------------------------ commands
\* the three commands
Commands == {"morph/cancel", "morph/accept", "morph/reject"}

\* a command that applies the decision to the Agent Session itself
rift_command_applies(m, method, i) ==
    IF MapHas(m, i) /\ method # "morph/cancel"
    THEN MapSet(m, i, [MapGet(m, i) EXCEPT
                       !.status = IF method = "morph/accept" THEN "accepted"
                                  ELSE "rejected"])
    ELSE m

\* the registry after the command closure ran on id i: the closure touches
\* neither this.agents nor an agent
rift_command(m, method, i) == m

\* rift.cancel, rift.accept, rift.reject on id i:
\* this.client?.sendNotification(method, { id })
command(method, i) ==
    /\ agents' = rift_command(agents, method, i)
    /\ last' = IF client = 0 THEN Quiet ELSE Send(method)
    /\ UNCHANGED <<connVars, backendUp, nextId, pending>>

\* ------------------------------------------------------------------ chat
\* LanguageClient.onNotification that keeps a handler already registered
onNotification_keeps(cs, c, cb) ==
    IF cs[c].chat = 0 THEN [cs EXCEPT ![c].chat = cb] ELSE cs

\* LanguageClient.onNotification('morph/chat_progress', cb) on connection c:
\* the handler of a method is replaced
onNotification(cs, c, cb) == [cs EXCEPT ![c].chat = cb]

\* sendRequest('morph/run_chat') of the call with callback cb on connection
\* c: unless the connection is stopped the backend starts to stream
sendRequest_run_chat(cs, c, cb) ==
    IF cs[c].state = "Stopped" THEN cs
    ELSE [cs EXCEPT ![c].streams = @ \cup {cb}]

\* a run_chat whose request is out before the handler is attached
run_chat_request_first(cs, c, cb) == sendRequest_run_chat(cs, c, cb)

\* lines 345-348 of run_chat on connection c: the callback is registered,
\* then the request is sent
run_chat_installs(cs, c, cb) ==
    sendRequest_run_chat(onNotification(cs, c, cb), c, cb)

\* run_chat that stores the callback before it tests this.client
run_chat_stores_first ==
    /\ chatCallback < MaxChats
    /\ chatCallback' = chatCallback + 1
    /\ IF client = 0
       THEN /\ last' = Raise("Error")
            /\ conns' = conns
       ELSE /\ conns' = run_chat_installs(conns, client, chatCallback + 1)
            /\ last' = Send("morph/run_chat")
    /\ UNCHANGED <<client, polling, waiting, shutdown, backendUp, agentVars>>

\* MorphLanguageClient.run_chat with the next callback: throws without a
\* client, else stores the callback, registers it on this.client and then
\* sends the request; the answer changes nothing
run_chat ==
    /\ IF client = 0
       THEN /\ last' = Raise("Error")
            /\ UNCHANGED <<conns, chatCallback>>
       ELSE /\ chatCallback < MaxChats
            /\ chatCallback' = chatCallback + 1
            /\ conns' = run_chat_installs(conns, client, chatCallback + 1)
            /\ last' = Send("morph/run_chat")
    /\ UNCHANGED <<client, polling, waiting, shutdown, backendUp, agentVars>>

\* what a morph/chat_progress notification does on connection c: the
\* registered callback is called; with no handler registered for the method
\* the library drops the notification
chat_notify(cs, c) ==
    IF cs[c].chat = 0 THEN Quiet ELSE [Quiet EXCEPT !.called = cs[c].chat]

\* connection c dispatches a morph/chat_progress notification
ChatProgress(c) ==
    /\ Dispatching(c)
    /\ last' = chat_notify(conns, c)
    /\ UNCHANGED <<connVars, backendUp, agentVars>>

\* the backend has sent the last notification of the chat of callback k
ChatEnds(c, k) ==
    /\ c \in DOMAIN conns
    /\ k \in conns[c].streams
    /\ conns' = [conns EXCEPT ![c].streams = @ \ {k}]
    /\ last' = Quiet
    /\ UNCHANGED <<client, polling, waiting, shutdown, chatCallback, backendUp,
                   agentVars>>

\* ------------------------------------------------------------------ code lenses
\* one AgentLens: the range of the line it sits on, the agent's id and the
\* command it runs
Lens(a, cmd) == [line |-> a.startPosition, id |-> a.id, command |-> cmd]

\* lenses that offer accept and reject for every agent that is not running
AgentLenses_after_decision(a) ==
    IF a.status = "running" THEN << Lens(a, "rift.cancel") >>
    ELSE << Lens(a, "rift.accept"), Lens(a, "rift.reject") >>

\* the lenses provideCodeLenses pushes for one agent of the document
AgentLenses(a) ==
    IF a.status = "running" THEN << Lens(a, "rift.cancel") >>
    ELSE IF a.status \in {"done", "error"}
    THEN << Lens(a, "rift.accept"), Lens(a, "rift.reject") >>
    ELSE << >>

RECURSIVE LensesFrom(_, _, _)
\* the loop of provideCodeLenses over the agents with ids from i on
LensesFrom(m, doc, i) ==
    IF i > MaxId THEN << >>
    ELSE (IF MapHas(m, i) /\ MapGet(m, i).textDocument = doc
          THEN AgentLenses(MapGet(m, i))
          ELSE << >>) \o LensesFrom(m, doc, i + 1)

\* MorphLanguageClient.provideCodeLenses on registry m and a document that
\* holds the anchor lines; the agents are visited by id
provideCodeLenses(m, doc) == LensesFrom(m, doc, 1)

\* the editor asks for the lenses of a document
ProvideCodeLenses(doc) ==
    /\ last' = [Quiet EXCEPT !.lenses = provideCodeLenses(agents, doc)]
    /\ UNCHANGED <<connVars, backendUp, agentVars>>

\* the Agent Sessions id i can be registered with
Snapshots(i) ==
    {[Agent(i, l, d, w) EXCEPT !.status = st] :
        l \in Lines, d \in Docs, w \in BOOLEAN, st \in AgentStatus}

\* the registry snapshots: each id absent or mapped to one Agent Session
Registries ==
    LET Slots == {{}} \cup {{a} : a \in UNION {Snapshots(i) : i \in Ids}}
    IN {UNION {f[i] : i \in Ids} :
          f \in {g \in [Ids -> Slots] : \A i \in Ids : \A a \in g[i] : a.id = i}}

\* ------------------------------------------------------------------ specification
Next ==
    \/ BackendStart
    \/ BackendStop
    \/ create_client_connect
    \/ create_client_port_free
    \/ create_client_check_throws
    \/ create_client_wait_resolved
    \/ create_client_wait_caught
    \/ \E c \in ConnIds : create_client_started(c)
    \/ \E c \in ConnIds : create_client_start_fails(c)
    \/ \E c \in ConnIds : ConnectionDrops(c)
    \/ \E c \in ConnIds : DisposeCompletes(c)
    \/ \E c \in ConnIds : ObserverResumes(c)
    \/ dispose
    \/ \E l \in RunLines, d \in RunDocs : run_agent(l, d)
    \/ \E l \in RunLines, d \in RunDocs : run_agent_rejected(l, d)
    \/ \E r \in pending : run_agent_returns(r)
    \/ \E c \in ConnIds, p \in Params : Progress(c, p)

Spec == Init /\ [][Next]_vars

\* the connection supervisor and its environment
SupervisorNext ==
    \/ BackendStart
    \/ BackendStop
    \/ create_client_connect
    \/ create_client_port_free
    \/ create_client_check_throws
    \/ create_client_wait_resolved
    \/ create_client_wait_caught
    \/ \E c \in ConnIds : create_client_started(c)
    \/ \E c \in ConnIds : create_client_start_fails(c)
    \/ \E c \in ConnIds : ConnectionDrops(c)
    \/ \E c \in ConnIds : DisposeCompletes(c)
    \/ \E c \in ConnIds : ObserverResumes(c)
    \/ dispose

\* the supervisor with the requests of the extension and the chat stream
RequestNext ==
    \/ SupervisorNext
    \/ create_client_called
    \/ \E l \in RunLines, d \in RunDocs : run_agent(l, d)
    \/ \E l \in RunLines, d \in RunDocs : run_agent_rejected(l, d)
    \/ \E r \in pending : run_agent_returns(r)
    \/ \E l \in RunLines, d \in RunDocs : run_agent_sync(l, d)
    \/ \E l \in RunLines, d \in RunDocs : run_agent_sync_rejected(l, d)
    \/ \E r \in pending : run_agent_sync_returns(r)
    \/ get_agents
    \/ on_config_change
    \/ run_chat
    \/ \E c \in ConnIds : ChatProgress(c)
    \/ \E c \in ConnIds, k \in Callbacks : ChatEnds(c, k)

RequestSpec == Init /\ [][RequestNext]_vars

\* the notifications about a document no editor shows
QuietParams == {p \in Params : \A e \in Editors : EditorDoc(e) # p.textDocument}

\* the supervisor with the agents of run_agent and of run_agent_sync, the
\* commands and the progress notifications about a document no editor shows
AgentNext ==
    \/ SupervisorNext
    \/ \E l \in RunLines, d \in RunDocs : run_agent(l, d)
    \/ \E l \in RunLines, d \in RunDocs : run_agent_rejected(l, d)
    \/ \E r \in pending : run_agent_returns(r)
    \/ \E l \in RunLines, d \in RunDocs : run_agent_sync(l, d)
    \/ \E l \in RunLines, d \in RunDocs : run_agent_sync_rejected(l, d)
    \/ \E r \in pending : run_agent_sync_returns(r)
    \/ \E method \in Commands, i \in Ids : command(method, i)
    \/ \E c \in ConnIds, p \in QuietParams : Progress(c, p)

AgentSpec == Init /\ [][AgentNext]_vars

\* provideCodeLenses applied to every registry snapshot and document
LensInit ==
    /\ client = 0
    /\ conns = [c \in {} |-> NewConn]
    /\ polling = 1
    /\ waiting = 0
    /\ backendUp \in BOOLEAN
    /\ nextId = 1
    /\ agents \in Registries
    /\ pending = {}
    /\ shutdown = FALSE
    /\ chatCallback = 0
    /\ last = Quiet

LensNext == \E doc \in Docs : ProvideCodeLenses(doc)

LensSpec == LensInit /\ [][LensNext]_vars

\* the steps of the supervisor that the event loop runs whenever they are
\* ready: resolved awaits of create_client and of the observer
LiveSpec ==
    /\ Spec
    /\ WF_vars(create_client_connect)
    /\ WF_vars(create_client_port_free)
    /\ WF_vars(create_client_wait_resolved)
    /\ WF_vars(create_client_wait_caught)
    /\ \A c \in ConnIds : WF_vars(create_client_started(c))
    /\ \A c \in ConnIds : WF_vars(create_client_start_fails(c))
    /\ \A c \in ConnIds : WF_vars(DisposeCompletes(c))
    /\ \A c \in ConnIds : WF_vars(ObserverResumes(c))

\* ------------------------------------------------------------------ claims
\* a morph/progress notification p is dispatched and reaches
\* Agent.handleProgress of agent a
Handled(c, p, a) ==
    /\ Progress(c, p)
    /\ is_running
    /\ a \in agents
    /\ a.id = p.id

\* the agent of id i after the step
After(i) == CHOOSE b \in agents' : b.id = i

\* in the current state notification p can be dispatched and reaches
\* Agent.handleProgress of agent a
CanHandle(p, a) ==
    /\ \E c \in ConnIds : Dispatching(c)
    /\ is_running
    /\ a \in agents
    /\ a.id = p.id

\* the agent of id i once morph_notify(p) has run in the current state
Then(p, i) == MapGet(morph_notify(p).agents, i)

\* C1: once an Agent Session is accepted or rejected, no agent-progress
\* notification for its id changes its status.
C1_TerminalAbsorbing ==
    [][\A c \in ConnIds, p \in Params, a \in agents :
         (Handled(c, p, a) /\ a.status \in Terminal)
            => After(a.id).status = a.status]_vars

\* the lifecycle graph: running -> done | error, done | error -> accepted | rejected
LifecycleStep(s, t) ==
    \/ s = "running" /\ t \in {"done", "error"}
    \/ s \in {"done", "error"} /\ t \in Terminal

\* C2: every status change made by an agent-progress notification is an edge
\* of the lifecycle graph.
C2_LifecycleGraph ==
    [][\A c \in ConnIds, p \in Params, a \in agents :
         (Handled(c, p, a) /\ After(a.id).status # a.status)
            => LifecycleStep(a.status, After(a.id).status)]_vars

\* no two entries of registry m share an id
UniqueIds(m) == \A e1 \in m, e2 \in m : e1.id = e2.id => e1 = e2

\* C3: after every step no two registry entries share an id, and when
\* run_agent completes, the returned id is the key of exactly one entry, whose
\* status is running.
C3_UniqueIdRunning ==
    [][/\ UniqueIds(agents')
       /\ \A r \in pending :
            run_agent_returns(r) =>
              /\ Cardinality({b \in agents' : b.id = nextId}) = 1
              /\ \A b \in agents' : b.id = nextId => b.status = "running"]_vars

\* run_agent has just completed with id 1 for the second time (the backend was
\* restarted after it had handed out ids 1 and 2), replacing the entry of id 1
C3_Witness ==
    /\ Cardinality(agents) = 2
    /\ nextId = 2
    /\ last.lensFires = 1
    /\ \E a \in agents : a.id = 1 /\ a.status = "running"
    /\ \E a \in agents : a.id = 2 /\ a.status = "done"

\* C4 as stated: a notification for an unknown id always raises 'agent not
\* found' and leaves the registry unchanged.
C4_AlwaysAgentNotFound ==
    [][\A c \in ConnIds, p \in Params :
         (Progress(c, p) /\ ~MapHas(agents, p.id))
            => (last'.err = "agent not found" /\ agents' = agents)]_vars

\* C4 amended: a notification for an unknown id always raises an error, 'agent
\* not found' when the current connection is Running and 'client not running'
\* otherwise, and leaves the registry unchanged.
C4_UnknownIdRaises ==
    \A p \in Params :
        ((\E c \in ConnIds : Dispatching(c)) /\ ~MapHas(agents, p.id))
           => /\ morph_notify(p).last.err =
                   IF ClientRunning THEN "agent not found" ELSE "client not running"
              /\ morph_notify(p).agents = agents

\* 'agent not found' was raised while the registry holds another agent
C4_Witness == last.err = "agent not found" /\ agents # {}

\* C5 as stated: after a notification moved a session into accepted or
\* rejected, Agent.ranges of that session is empty.
C5_RangesEmptied ==
    [][\A c \in ConnIds, p \in Params, a \in agents :
         (Handled(c, p, a) /\ a.status \notin Terminal
                           /\ After(a.id).status \in Terminal)
            => After(a.id).ranges = << >>]_vars

\* C5 amended: after a notification moved a session into accepted or rejected,
\* the session's decoration is empty in every visible editor that shows the
\* notification's document, also when it was set before or the notification
\* carries ranges; Agent.ranges is not cleared: it is the notification's ranges
\* if it carries any and unchanged otherwise.
C5_DecorationsCleared ==
    \A p \in Params, a \in agents :
        (CanHandle(p, a) /\ a.status \notin Terminal
                         /\ Then(p, a.id).status \in Terminal)
           => /\ \A e \in Editors :
                   EditorDoc(e) = p.textDocument => Then(p, a.id).green[e] = << >>
              /\ Then(p, a.id).ranges = IF p.hasRanges THEN p.ranges ELSE a.ranges

\* an accepted or rejected session that still holds ranges and whose
\* decoration is gone
C5_Witness ==
    \E a \in agents : /\ a.status \in Terminal
                      /\ a.ranges # << >>
                      /\ \A e \in Editors : a.green[e] = << >>

\* C6: a notification that carries ranges sets Agent.ranges to exactly those
\* ranges; one without ranges leaves Agent.ranges unchanged.
C6_RangesReplaced ==
    \A p \in Params, a \in agents :
        CanHandle(p, a)
           => Then(p, a.id).ranges = IF p.hasRanges THEN p.ranges ELSE a.ranges

\* a session holds the ranges of a notification
C6_Witness == \E a \in agents : a.ranges = <<"r1">> /\ a.status = "done"

\* C7: onStatusChangeEmitter fires once for a notification whose status differs
\* from the session's status and not at all otherwise.
C7_FiresOncePerChange ==
    \A p \in Params, a \in agents :
        CanHandle(p, a)
           => morph_notify(p).last.statusFires =
                 IF p.status # "none" /\ p.status # a.status THEN 1 ELSE 0

\* the emitter has just fired for a session that is now done
C7_Witness ==
    /\ last.statusFires = 1
    /\ \E a \in agents : a.status = "done"

\* C8: whenever the current connection is Stopped and from then on the backend
\* listens and dispose() is never called, the current connection is eventually
\* Running again.
C8_Reconnects ==
    []((ClientStopped /\ []backendUp /\ []~shutdown) => <>ClientRunning)

C10_ShutdownStops ==
    [][shutdown => /\ client' = client
                   /\ polling' + waiting' <= polling + waiting]_vars

\* C11: without an explicit shutdown, create_client never ends in a state
\* with no live connection and no retry in progress: either a connection is
\* Starting or Running, or an invocation of create_client is polling or
\* waiting for the port, or an observer is on its way to call create_client.
C11_KeepsRetrying ==
    \/ shutdown
    \/ polling + waiting > 0
    \/ \E c \in DOMAIN conns : conns[c].state \in {"Starting", "Running"}
    \/ \E c \in DOMAIN conns : conns[c].obs # 0

\* C12: create_client is idempotent: called while the current connection is
\* Running (or Starting) it returns at once, without polling, without
\* constructing a connection and without registering another observer.
C12_Idempotent ==
    [][create_client_called =>
         UNCHANGED <<client, conns, polling, waiting>>]_vars

\* create_client was called on a Running connection and returned early
C12_Witness ==
    /\ ClientRunning
    /\ last.log = "client already exists"

\* a call of run_agent, run_agent_sync, run_chat or get_agents
RequestCalled ==
    \/ \E l \in RunLines, d \in RunDocs : run_agent(l, d)
    \/ \E l \in RunLines, d \in RunDocs : run_agent_sync(l, d)
    \/ run_chat
    \/ get_agents

\* C13: while this.client is null, run_agent, run_agent_sync, run_chat and
\* get_agents each fail at once with an error, send nothing to the backend
\* and leave the registry and the chat callback slot unchanged.
C13_NotConnectedFails ==
    [][(client = 0 /\ RequestCalled) =>
         /\ last'.err # "none"
         /\ last'.sent = "none"
         /\ pending' = pending
         /\ agents' = agents
         /\ chatCallback' = chatCallback]_vars

\* a request has just failed for want of a client
C13_Witness ==
    /\ client = 0
    /\ last.err \in {"not connected", "Error"}
    /\ last.sent = "none"

\* C14: on_config_change called while this.client is null surfaces an
\* explicit error to its caller; it does not complete as a silent no-op.
C14_ConfigChangeFails ==
    [][(client = 0 /\ on_config_change) => last'.err # "none"]_vars

\* C15: a morph/chat_progress notification that arrives while no chat
\* callback is registered on the connection (no run_chat yet on it, also
\* after a reconnect) raises the missing-callback error; it is never dropped
\* silently.
C15_MissingCallbackRaises ==
    [][\A c \in ConnIds :
         (ChatProgress(c) /\ conns[c].chat = 0) =>
             last'.err = "no callback set"]_vars

\* C16: at most one chat callback is active: once a later run_chat has been
\* made, a morph/chat_progress notification on any connection that can still
\* dispatch calls the callback of the latest run_chat only; the callback of
\* an earlier call is never called again.
C16_OneChatCallback ==
    \A c \in ConnIds :
        (Dispatching(c) /\ chat_notify(conns, c).called # 0) =>
            chat_notify(conns, c).called = chatCallback

\* a second run_chat was made on the connection of the first and a
\* notification has just been delivered to its callback
C16_Witness ==
    /\ chatCallback = 2
    /\ ClientRunning
    /\ conns[client].chat = 2
    /\ last.called = 2

\* C17: rift.cancel, rift.accept and rift.reject only send a notification:
\* for a known or an unknown id, with or without a connection, the command
\* leaves the registry and the status and ranges of every Agent Session
\* unchanged.
C17_CommandsOnlySend ==
    [][\A method \in Commands, i \in Ids :
         command(method, i) =>
             /\ agents' = agents
             /\ pending' = pending
             /\ last'.statusFires = 0
             /\ last'.lensFires = 0]_vars

\* accept was issued on a Running connection for an agent that is done, and
\* the agent is still done
C17_Witness ==
    /\ ClientRunning
    /\ last.sent = "morph/accept"
    /\ \E a \in agents : a.status = "done"

\* the ids registered
Keys(m) == {a.id : a \in m}

\* C18: Agent Sessions are never removed: the set of registry keys only
\* grows, and an id once registered stays mapped to the same Agent Session
\* object, so no step registers a new Agent under an id that has one.
C18_NeverRemoved ==
    [][/\ Keys(agents) \subseteq Keys(agents')
       /\ \A r \in pending :
            (run_agent_returns(r) \/ run_agent_sync_returns(r)) =>
                ~MapHas(agents, nextId)]_vars

\* how many lenses of sequence L belong to agent i and run command cmd
LensCount(L, i, cmd) ==
    Cardinality({k \in 1..Len(L) : L[k].id = i /\ L[k].command = cmd})

\* the lenses the claim expects of agent a, as counts of cancel, accept, reject
Expected(a) ==
    IF a.status = "running" THEN <<1, 0, 0>>
    ELSE IF a.status \in {"done", "error"} THEN <<0, 1, 1>>
    ELSE <<0, 0, 0>>

\* C19: for every registry snapshot and document, provideCodeLenses returns,
\* for each agent of that document and at the agent's anchor line, exactly
\* one cancel lens if the agent is running, exactly one accept and one reject
\* lens if it is done or error, and nothing if it is accepted or rejected;
\* agents of other documents and absent ids contribute nothing.
C19_LensesOfSnapshot ==
    \A doc \in Docs, i \in Ids :
        LET L == provideCodeLenses(agents, doc)
            mine == \E a \in agents : a.id = i /\ a.textDocument = doc
            counts == <<LensCount(L, i, "rift.cancel"),
                        LensCount(L, i, "rift.accept"),
                        LensCount(L, i, "rift.reject")>>
        IN /\ counts = IF mine THEN Expected(MapGet(agents, i)) ELSE <<0, 0, 0>>
           /\ \A k \in 1..Len(L) :
                L[k].id = i => L[k].line = MapGet(agents, i).startPosition

\* the lenses of a.py were returned: one cancel lens for its running agent,
\* nothing for the done agent of b.py
C19_Witness ==
    \E a, b \in agents :
        /\ a.textDocument = "a.py" /\ a.status = "running"
        /\ b.textDocument = "b.py" /\ b.status = "done"
        /\ last.lenses = << Lens(a, "rift.cancel") >>

\* C20: changeLensEmitter fires once for every status change and once for
\* every ranges change of any agent: each progress notification that changes
\* an agent's status or replaces its ranges is followed by exactly one firing.
C20_FiresOnEveryChange ==
    [][\A c \in ConnIds, p \in Params, a \in agents :
         (/\ Handled(c, p, a)
          /\ \/ p.status \notin {"none", a.status}
             \/ p.hasRanges) => last'.lensFires = 1]_vars

\* C20, amended: changeLensEmitter fires exactly once for a progress
\* notification that changes the status of an agent registered by run_agent,
\* and not at all for any other progress notification: one that replaces
\* ranges without changing the status, one for an agent registered by
\* run_agent_sync, one that raises an error.
C20_FiresOncePerStatusChange ==
    \A p \in Params :
        morph_notify(p).last.lensFires =
            IF /\ is_running
               /\ \E a \in agents : /\ a.id = p.id
                                    /\ a.wired
                                    /\ p.status \notin {"none", a.status}
            THEN 1 ELSE 0

\* both emitters have just fired for an agent of run_agent that is now error
C20_Witness ==
    /\ last.statusFires = 1
    /\ last.lensFires = 1
    /\ \E a \in agents : a.wired /\ a.status = "error"

\* C21: a successful run_agent_sync registers the returned id with status
\* running and returns the backend's text, subscribes nothing to the agent's
\* status changes and fires changeLensEmitter zero times, at its completion
\* and for every later progress notification for that id.
C21_SyncAgentIsSilent ==
    /\ last.returned = "text" =>
         /\ last.err = "none"
         /\ last.lensFires = 0
         /\ \E a \in agents : /\ a.id = nextId - 1
                              /\ a.status = "running"
                              /\ ~a.wired
    /\ \A p \in Params, a \in agents :
         (a.id = p.id /\ ~a.wired) => morph_notify(p).last.lensFires = 0

\* a notification has just changed the status of an agent of run_agent_sync:
\* its own emitter fired, changeLensEmitter did not
C21_Witness ==
    /\ last.statusFires = 1
    /\ last.lensFires = 0
    /\ \E a \in agents : ~a.wired /\ a.status = "done"

\* C22: routing is exact: a progress notification for a registered id
\* changes the Agent Session of that id only; every other Agent Session and
\* the set of registry keys are left unchanged.
C22_RoutingExact ==
    \A p \in Params :
        LET m == morph_notify(p).agents
        IN /\ Keys(m) = Keys(agents)
           /\ \A a \in agents : a.id # p.id => a \in m
           /\ \A a \in agents :
                CanHandle(p, a) =>
                    /\ p.status # "none" => Then(p, a.id).status = p.status
                    /\ p.hasRanges => Then(p, a.id).ranges = p.ranges

\* of two registered sessions one has just been moved to done by a
\* notification and the other is still running with no ranges
C22_Witness ==
    /\ last.statusFires = 1
    /\ \E a, b \in agents : /\ a.id # b.id
                            /\ a.status = "done"
                            /\ b.status = "running"
                            /\ b.ranges = << >>

\* C23: run_chat installs the caller's callback before it sends the
\* request, so every chat-progress notification the backend emits in
\* response to that request is delivered to that callback.
C23_DeliveredToOwnCallback ==
    [][\A c \in ConnIds :
         ChatProgress(c) => \A k \in conns[c].streams : last'.called = k]_vars

\* C23, amended: a chat-progress notification in response to a run_chat
\* request is never dropped for want of a handler and never handled by the
\* callback of an earlier run_chat: it is delivered to the callback of that
\* call or, once run_chat has been called again, to the callback of the
\* latest call.
C23_InstalledBeforeRequest ==
    \A c \in ConnIds :
        Dispatching(c) =>
            \A k \in conns[c].streams :
                /\ chat_notify(conns, c).called # 0
                /\ chat_notify(conns, c).called >= k
                /\ chat_notify(conns, c).called = chatCallback

\* the only chat streams and a notification has just reached its callback
C23_Witness ==
    /\ chatCallback = 1
    /\ ClientRunning
    /\ conns[client].streams = {1}
    /\ last.called = 1

\* a notification that moves agent a to done
Done(a) ==
    [id |-> a.id, status |-> "done", hasRanges |-> FALSE, ranges |-> << >>,
     textDocument |-> a.textDocument]

\* C24: the registry survives reconnection and routing is restored: no step
\* that changes the current connection or a connection changes the agents
\* map, and whenever the current connection is Running the progress handler
\* is registered on it, so that a notification for any registered id, also
\* one registered before the drop, still updates that Agent Session.
C24_RegistrySurvivesReconnect ==
    [][/\ (client' # client \/ conns' # conns) => agents' = agents
       /\ ClientRunning =>
            /\ Dispatching(client)
            /\ \A a \in agents :
                 /\ morph_notify(Done(a)).last.err = "none"
                 /\ Then(Done(a), a.id).status = "done"]_vars

\* the backend was restarted after the agents were registered, the supervisor
\* has reconnected, and a notification has just changed a session
C24_Witness ==
    /\ ClientRunning
    /\ nextId = 1
    /\ agents # {}
    /\ last.statusFires = 1

\* C25: a progress notification handled while this.client is null or not in
\* state Running raises 'client not running' before any registry lookup and
\* changes no Agent Session, also when its id is registered.
C25_NotRunningRaises ==
    \A p \in Params :
        ~(client # 0 /\ conns[client].state = "Running") =>
            /\ morph_notify(p).last.err = "client not running"
            /\ morph_notify(p).last.statusFires = 0
            /\ morph_notify(p).last.lensFires = 0
            /\ morph_notify(p).agents = agents

\* every id is registered, the current connection is Stopped, and a
\* notification has just been refused
C25_Witness ==
    /\ Keys(agents) = Ids
    /\ ClientStopped
    /\ last.err = "client not running"

====
